---- MODULE Spec2Model ----
(***************************************************************************)
(* Range scans of AtomixDB (database/range.go): the B-tree cursor BIter    *)
(* (Seek, SeekLE, Next, Prev, Valid, Deref) and the Scanner that drives it *)
(* (Scan, Valid, Next, Deref).                                             *)
(*                                                                         *)
(* Slot indices and levels are the Go values (0-based); TLA+ sequences are *)
(* 1-based, so slot i of a node is element i + 1 of its sequences.         *)
(***************************************************************************)
EXTENDS Integers, Sequences, FiniteSets, TLC

(* ------------------------------ bounds --------------------------------- *)
\* primary-key values of the stored rows are drawn from 1..MaxA
MaxA == 3
\* a leaf holds at most LeafCap key/value pairs, LeafCap in 1..MaxLeafCap
MaxLeafCap == 3
\* an internal node holds at most Fanout children
Fanout == 2
\* the scan loop is cut after MaxOut rows were yielded
MaxOut == 5

(* --------------------------- program constants ------------------------- *)
CMP_GE == 3
CMP_GT == 2
CMP_LT == -2
CMP_LE == -3
\* slot indices are uint16
U16 == 65536
\* one byte
ByteMod == 256
\* encoded width of an integer column, in bytes
IntWidth == 2
\* length of a key-space prefix: Deref decodes key[4:]
PrefixLen == 4

BNODE_INODE == "inode"
BNODE_LEAF == "leaf"

(* ------------------------------ bytes ---------------------------------- *)
Max(S) == CHOOSE x \in S : \A y \in S : y <= x
Min2(a, b) == IF a <= b THEN a ELSE b

\* bytes.Compare: lexicographic order of two byte strings, as -1, 0 or +1
RECURSIVE bytesCompareFrom(_, _, _)
bytesCompareFrom(a, b, i) ==
    IF i > Len(a) /\ i > Len(b) THEN 0
    ELSE IF i > Len(a) THEN -1
    ELSE IF i > Len(b) THEN 1
    ELSE IF a[i] < b[i] THEN -1
    ELSE IF a[i] > b[i] THEN 1
    ELSE bytesCompareFrom(a, b, i + 1)

bytesCompare(a, b) == bytesCompareFrom(a, b, 1)

(* ------------------------------ key codec ------------------------------ *)
\* fixed-width big-endian encoding of one integer value
EncodeInt(v) == [i \in 1..IntWidth |-> (v \div (ByteMod ^ (IntWidth - i))) % ByteMod]

RECURSIVE encodeValues(_)
encodeValues(vals) ==
    IF vals = <<>> THEN <<>> ELSE EncodeInt(Head(vals)) \o encodeValues(Tail(vals))

encodeKey(prefix, vals) == prefix \o encodeValues(vals)

RECURSIVE DecodeInt(_, _)
DecodeInt(bytes, n) ==
    IF n = 0 THEN 0 ELSE DecodeInt(bytes, n - 1) * ByteMod + bytes[n]

\* decodeValues: n integers out of a byte string
RECURSIVE decodeValues(_, _)
decodeValues(bytes, n) ==
    IF n = 0 THEN <<>>
    ELSE <<DecodeInt(SubSeq(bytes, 1, IntWidth), IntWidth)>>
         \o decodeValues(SubSeq(bytes, IntWidth + 1, Len(bytes)), n - 1)

\* encodeKeyPartial: the columns the bound leaves out are padded with the
\* maximum byte for the operators > and <=, and not at all for >= and <
encodeKeyPartial(prefix, vals, index, cmp) ==
    LET missing == Len(index) - Len(vals)
        padded == (cmp = CMP_GT \/ cmp = CMP_LE) /\ missing > 0
    IN encodeKey(prefix, vals)
       \o (IF padded THEN [i \in 1..(missing * IntWidth) |-> ByteMod - 1] ELSE <<>>)

(* ------------------------------- schema -------------------------------- *)
\* table T(a, b), primary key a, one secondary index on b (stored as (b, a))
TDef ==
    [Name |-> "T", Cols |-> <<"a", "b">>, PKeys |-> 1,
     Indexes |-> << <<"b", "a">> >>,
     Prefix |-> <<0, 0, 0, 1>>, IndexPrefix |-> << <<0, 0, 0, 2>> >>]

NilTDef ==
    [Name |-> "", Cols |-> <<>>, PKeys |-> 0, Indexes |-> <<>>,
     Prefix |-> <<>>, IndexPrefix |-> <<>>]

GetTableDef(table) == IF table = TDef.Name THEN TDef ELSE NilTDef

isPrefix(long, short) ==
    Len(short) <= Len(long) /\ \A i \in 1..Len(short) : long[i] = short[i]

\* findIndex: -1 for the primary key, the number of the first secondary
\* index the columns are a prefix of, -2 when there is none (an error)
findIndex(tdef, cols) ==
    IF isPrefix(SubSeq(tdef.Cols, 1, tdef.PKeys), cols) THEN -1
    ELSE LET S == {i \in 1..Len(tdef.Indexes) : isPrefix(tdef.Indexes[i], cols)}
         IN IF S = {} THEN -2 ELSE (CHOOSE i \in S : \A j \in S : i <= j) - 1

ColIndex(tdef, col) == CHOOSE i \in 1..Len(tdef.Cols) : tdef.Cols[i] = col

\* Record.Get: the value of a named column
RecordGet(rec, col) == rec.Vals[CHOOSE i \in 1..Len(rec.Cols) : rec.Cols[i] = col]

(* ------------------------------ the tree ------------------------------- *)
nKeys(node) == Len(node.keys)
getKey(node, idx) == node.keys[idx + 1]
getVal(node, idx) == node.vals[idx + 1]
getPtr(node, idx) == node.ptrs[idx + 1]
bNodeType(node) == node.type
\* BTree.get: the node behind a pointer
get(t, ptr) == t.nodes[ptr]

\* nodeLookupLE: the last slot whose key is <= key, slot 0 when there is none
nodeLookupLE(node, key) ==
    LET S == {i \in 0..(nKeys(node) - 1) : bytesCompare(getKey(node, i), key) <= 0}
    IN IF S = {} THEN 0 ELSE Max(S)

\* the value b stored in the row with primary key a
BOf(a) == MaxA + 1 - a

RowKV(a) == [key |-> encodeKey(TDef.Prefix, <<a>>), val |-> encodeValues(<<BOf(a)>>)]
IndexKV(a) == [key |-> encodeKey(TDef.IndexPrefix[1], <<BOf(a), a>>), val |-> <<>>]

\* the key/value pairs of a set, in ascending key order
RECURSIVE SortKVs(_)
SortKVs(S) ==
    IF S = {} THEN <<>>
    ELSE LET m == CHOOSE x \in S : \A y \in S : bytesCompare(x.key, y.key) <= 0
         IN <<m>> \o SortKVs(S \ {m})

\* a sequence cut into pieces of at most n elements
RECURSIVE Chunks(_, _)
Chunks(s, n) ==
    IF Len(s) = 0 THEN <<>>
    ELSE <<SubSeq(s, 1, Min2(n, Len(s)))>> \o Chunks(SubSeq(s, Min2(n, Len(s)) + 1, Len(s)), n)

LeafNode(kvs) ==
    [type |-> BNODE_LEAF, data |-> TRUE,
     keys |-> [i \in 1..Len(kvs) |-> kvs[i].key],
     vals |-> [i \in 1..Len(kvs) |-> kvs[i].val], ptrs |-> <<>>]

\* an internal node over the children at the given pointers: the key of a
\* slot is the first key of its child
INode(nodes, kids) ==
    [type |-> BNODE_INODE, data |-> TRUE,
     keys |-> [i \in 1..Len(kids) |-> nodes[kids[i]].keys[1]],
     vals |-> <<>>, ptrs |-> kids]

\* the levels above the nodes first..last, up to a single root
RECURSIVE BuildUp(_, _, _)
BuildUp(nodes, first, last) ==
    IF first = last THEN [root |-> last, nodes |-> nodes]
    ELSE LET groups == Chunks([i \in 1..(last - first + 1) |-> first + i - 1], Fanout)
             parents == [g \in 1..Len(groups) |-> INode(nodes, groups[g])]
         IN BuildUp(nodes \o parents, last + 1, last + Len(groups))

\* the B-tree over a sorted sequence of key/value pairs; root 0 is the empty tree
BuildTree(kvs, leafCap) ==
    IF Len(kvs) = 0 THEN [root |-> 0, nodes |-> <<>>]
    ELSE LET pieces == Chunks(kvs, leafCap)
             leaves == [i \in 1..Len(pieces) |-> LeafNode(pieces[i])]
         IN BuildUp(leaves, 1, Len(leaves))

\* what the index holds: nothing, an entry per stored row, or an entry for
\* every primary key (stale entries for the rows that are not stored)
IndexModes == {"none", "rows", "all"}

IndexRows(rows, mode) ==
    IF mode = "none" THEN {} ELSE IF mode = "rows" THEN rows ELSE 1..MaxA

TreeOf(rows, mode, leafCap) ==
    BuildTree(SortKVs({RowKV(a) : a \in rows} \cup {IndexKV(a) : a \in IndexRows(rows, mode)}),
              leafCap)

Trees == {TreeOf(rows, mode, cap) : rows \in SUBSET (1..MaxA), mode \in IndexModes,
                                    cap \in 1..MaxLeafCap}

\* every key stored in a leaf of the tree
StoredKeys(t) ==
    UNION {{t.nodes[p].keys[i] : i \in 1..Len(t.nodes[p].keys)} :
           p \in {q \in 1..Len(t.nodes) : t.nodes[q].type = BNODE_LEAF}}

(* ------------------------------ the cursor ----------------------------- *)
\* a BIter: the nodes from the root to a leaf (by pointer) and a slot in each.
\* isNil marks the nil *BIter of a Scanner that was never set up.
NilIter == [isNil |-> TRUE, path |-> <<>>, pos |-> <<>>]
EmptyIter == [isNil |-> FALSE, path |-> <<>>, pos |-> <<>>]

\* BIter.Valid
BIterValid(t, it) ==
    IF Len(it.path) = 0 THEN FALSE
    ELSE LET lastNode == get(t, it.path[Len(it.path)])
         IN lastNode.data /\ it.pos[Len(it.pos)] < nKeys(lastNode)

\* BIter.Deref indexes path[len(path)-1]: out of range on an empty path
BIterDerefPanics(it) == Len(it.path) = 0

BIterDeref(t, it) ==
    LET currentNode == get(t, it.path[Len(it.path)])
        idx == it.pos[Len(it.pos)]
    IN [key |-> getKey(currentNode, idx), val |-> getVal(currentNode, idx)]

RECURSIVE iterPrev(_, _, _)
iterPrev(t, it, level) ==
    IF it.pos[level + 1] = 0 /\ level = 0 THEN it
    ELSE LET moved == IF it.pos[level + 1] > 0
                      THEN [it EXCEPT !.pos[level + 1] = @ - 1]
                      ELSE iterPrev(t, it, level - 1)
         IN IF level + 1 < Len(moved.pos)
            THEN LET prevNode == get(t, moved.path[level + 1])
                     kid == getPtr(prevNode, moved.pos[level + 1])
                 IN [moved EXCEPT !.path[level + 2] = kid,
                                  !.pos[level + 2] = (nKeys(get(t, kid)) - 1) % U16]
            ELSE moved

\* a step forward that increments the slot of the level without comparing
\* it with the key count of the node
iterNextUnguarded(t, it, level) ==
    [it EXCEPT !.pos[level + 1] = (@ + 1) % U16]

RECURSIVE iterNext(_, _, _)
iterNext(t, it, level) ==
    LET currentNode == get(t, it.path[level + 1])
        within == it.pos[level + 1] < (nKeys(currentNode) - 1) % U16
    IN IF ~within /\ ~(level < Len(it.path) - 1) THEN it
       ELSE LET moved == IF within
                         THEN [it EXCEPT !.pos[level + 1] = @ + 1]
                         ELSE iterNext(t, it, level + 1)
            IN IF level + 1 < Len(moved.pos)
               THEN LET nextNode == get(t, moved.path[level + 1])
                        kid == getPtr(nextNode, moved.pos[level + 1])
                    IN [moved EXCEPT !.path[level + 2] = kid, !.pos[level + 2] = 0]
               ELSE moved

\* BIter.Prev starts at the leaf level, BIter.Next at level 0; both index
\* pos or path out of range on an empty path
BIterStepPanics(it) == Len(it.path) = 0

BIterPrev(t, it) == iterPrev(t, it, Len(it.path) - 1)

BIterNext(t, it) == iterNext(t, it, 0)

\* cmpOK panics on an operator that is none of the four
cmpPanics(cmp) == cmp \notin {CMP_GE, CMP_GT, CMP_LT, CMP_LE}

cmpOK(key, cmp, ref) ==
    LET r == bytesCompare(key, ref)
    IN CASE cmp = CMP_GE -> r >= 0
         [] cmp = CMP_GT -> r > 0
         [] cmp = CMP_LT -> r < 0
         [] cmp = CMP_LE -> r <= 0
         [] OTHER -> FALSE

RECURSIVE SeekLEFrom(_, _, _, _)
SeekLEFrom(t, ptr, key, it) ==
    IF ptr = 0 THEN it
    ELSE LET node == get(t, ptr)
             idx == nodeLookupLE(node, key)
             pushed == [it EXCEPT !.path = Append(@, ptr), !.pos = Append(@, idx)]
         IN SeekLEFrom(t, IF bNodeType(node) = BNODE_INODE THEN getPtr(node, idx) ELSE 0,
                       key, pushed)

SeekLE(t, key) == SeekLEFrom(t, t.root, key, EmptyIter)

\* does Seek step after the less-or-equal landing
SeekSteps(t, key, cmp) ==
    LET it == SeekLE(t, key)
    IN cmp # CMP_LE /\ BIterValid(t, it) /\ ~cmpOK(BIterDeref(t, it).key, cmp, key)

SeekPanics(t, key, cmp) ==
    LET it == SeekLE(t, key)
    IN cmp # CMP_LE /\ BIterValid(t, it) /\ cmpPanics(cmp)

Seek(t, key, cmp) ==
    LET it == SeekLE(t, key)
    IN IF SeekSteps(t, key, cmp)
       THEN IF cmp > 0 THEN BIterNext(t, it) ELSE BIterPrev(t, it)
       ELSE it

(* ------------------------------ the scanner ---------------------------- *)
\* a Scanner the caller has filled in (Cmp1, Cmp2, Key1, Key2) and that no
\* Scan has touched: db and tdef nil, indexNo 0, no bounds, no cursor
NewScanner(cmp1, cmp2, key1, key2) ==
    [db |-> "nil", indexNo |-> 0, Cmp1 |-> cmp1, Cmp2 |-> cmp2, Key1 |-> key1, Key2 |-> key2,
     tdef |-> "", iter |-> NilIter, keyEnd |-> <<>>, keyStart |-> <<>>]

\* dbScan: the error returned ("nil" for none), the panic raised inside
\* ("" for none), the Scanner as it is left, and the number of Seek calls
dbScan(t, tdef, req) ==
    LET shapeOK == (req.Cmp1 > 0 /\ req.Cmp2 < 0) \/ (req.Cmp2 > 0 /\ req.Cmp1 < 0)
        indexNo == findIndex(tdef, req.Key1.Cols)
        index == IF indexNo >= 0 THEN tdef.Indexes[indexNo + 1]
                 ELSE SubSeq(tdef.Cols, 1, tdef.PKeys)
        prefix == IF indexNo >= 0 THEN tdef.IndexPrefix[indexNo + 1] ELSE tdef.Prefix
        keyStart == encodeKeyPartial(prefix, req.Key1.Vals, index, req.Cmp1)
        keyEnd == encodeKeyPartial(prefix, req.Key2.Vals, index, req.Cmp2)
        bound == [req EXCEPT !.db = "db", !.tdef = tdef.Name, !.indexNo = indexNo,
                             !.keyStart = keyStart, !.keyEnd = keyEnd]
    IN IF ~shapeOK THEN [err |-> "bad range", panic |-> "", sc |-> req, seeks |-> 0]
       ELSE IF indexNo = -2
       THEN [err |-> "no index found", panic |-> "", sc |-> req, seeks |-> 0]
       ELSE IF SeekPanics(t, keyStart, req.Cmp1)
       THEN [err |-> "unset", panic |-> "what?", sc |-> bound, seeks |-> 1]
       ELSE [err |-> "nil", panic |-> "",
             sc |-> [bound EXCEPT !.iter = Seek(t, keyStart, req.Cmp1)], seeks |-> 1]

\* DB.Scan
DBScan(t, table, req) ==
    LET tdef == GetTableDef(table)
    IN IF tdef.Name = ""
       THEN [err |-> "table not found", panic |-> "", sc |-> req, seeks |-> 0]
       ELSE dbScan(t, tdef, req)

\* Scanner.Valid calls a method of sc.iter, nil when no Scan assigned it,
\* and cmpOK with Cmp2 and then Cmp1 when the cursor is valid
ScannerValidPanic(t, s) ==
    IF s.iter.isNil THEN "nil pointer dereference"
    ELSE IF BIterValid(t, s.iter) /\ (cmpPanics(s.Cmp2) \/ cmpPanics(s.Cmp1)) THEN "what?"
    ELSE ""

\* a Valid that checks the end bound alone
ScannerValidEndOnly(t, s) ==
    IF ~BIterValid(t, s.iter) THEN FALSE
    ELSE cmpOK(BIterDeref(t, s.iter).key, s.Cmp2, s.keyEnd)

ScannerValid(t, s) ==
    IF ~BIterValid(t, s.iter) THEN FALSE
    ELSE LET key == BIterDeref(t, s.iter).key
             result == cmpOK(key, s.Cmp2, s.keyEnd)
             startRes == cmpOK(key, s.Cmp1, s.keyStart)
         IN result /\ startRes

\* a Next that asks the cursor, not the Scanner, whether it is valid
ScannerNextIterGuard(t, s) ==
    IF ~BIterValid(t, s.iter) THEN s
    ELSE IF s.Cmp1 > 0 THEN [s EXCEPT !.iter = BIterNext(t, s.iter)]
    ELSE [s EXCEPT !.iter = BIterPrev(t, s.iter)]

\* Scanner.Next: the Scanner after the call
ScannerNext(t, s) ==
    IF ~ScannerValid(t, s) THEN s
    ELSE IF s.Cmp1 > 0 THEN [s EXCEPT !.iter = BIterNext(t, s.iter)]
    ELSE [s EXCEPT !.iter = BIterPrev(t, s.iter)]

\* dbGet: the point lookup of the row with the primary key held in rec
dbGet(t, tdef, r) ==
    LET key == encodeKey(tdef.Prefix, SubSeq(r.Vals, 1, tdef.PKeys))
        it == SeekLE(t, key)
        ok == BIterValid(t, it) /\ BIterDeref(t, it).key = key
    IN IF ~ok THEN [ok |-> FALSE, rec |-> r]
       ELSE [ok |-> TRUE,
             rec |-> [Cols |-> r.Cols \o SubSeq(tdef.Cols, tdef.PKeys + 1, Len(tdef.Cols)),
                      Vals |-> r.Vals \o decodeValues(BIterDeref(t, it).val,
                                                      Len(tdef.Cols) - tdef.PKeys)]]

\* the row of a primary-key entry
DerefPrimary(tdef, kv) ==
    [Cols |-> tdef.Cols,
     Vals |-> decodeValues(SubSeq(kv.key, PrefixLen + 1, Len(kv.key)), tdef.PKeys)
              \o decodeValues(kv.val, Len(tdef.Cols) - tdef.PKeys)]

\* the primary key of an index entry, then the row fetched with it
DerefIndex(t, tdef, indexNo, kv) ==
    LET index == tdef.Indexes[indexNo + 1]
        ival == decodeValues(SubSeq(kv.key, PrefixLen + 1, Len(kv.key)), Len(index))
        icol == [Cols |-> index, Vals |-> ival]
        cols == SubSeq(tdef.Cols, 1, tdef.PKeys)
        pk == [Cols |-> cols, Vals |-> [i \in 1..Len(cols) |-> RecordGet(icol, cols[i])]]
    IN dbGet(t, tdef, pk).rec

\* a Deref that ends the scan when the row of an index entry is missing
ScannerDerefEndsOnMiss(t, s, r) ==
    IF ~ScannerValid(t, s) THEN [rec |-> r, sc |-> s]
    ELSE IF s.indexNo < 0
    THEN [rec |-> DerefPrimary(GetTableDef(s.tdef), BIterDeref(t, s.iter)), sc |-> s]
    ELSE LET row == DerefIndex(t, GetTableDef(s.tdef), s.indexNo, BIterDeref(t, s.iter))
         IN [rec |-> row,
             sc |-> IF Len(row.Cols) < Len(GetTableDef(s.tdef).Cols)
                    THEN [s EXCEPT !.iter = EmptyIter] ELSE s]

\* Scanner.Deref: the output record and the Scanner after the call
ScannerDeref(t, s, r) ==
    IF ~ScannerValid(t, s) THEN [rec |-> r, sc |-> s]
    ELSE IF s.indexNo < 0
    THEN [rec |-> DerefPrimary(GetTableDef(s.tdef), BIterDeref(t, s.iter)), sc |-> s]
    ELSE [rec |-> DerefIndex(t, GetTableDef(s.tdef), s.indexNo, BIterDeref(t, s.iter)),
          sc |-> s]

(* ------------------------------ the state ------------------------------ *)
VARIABLES
    tree,    \* the B-tree handed to Scan and Deref
    table,   \* the table name handed to Scan, "" before
    sc,      \* the Scanner
    err,     \* what Scan returned: "unset" before it returns, "nil" for no error
    panic,   \* the panic that ended the program, "" while it runs
    seeks,   \* number of BTree.Seek calls made
    rec,     \* the caller's output Record
    op,      \* the last call made
    ret,     \* what the last Scanner.Valid call returned
    out,     \* the cursor keys of the rows the scan loop yielded
    calls,   \* number of Scanner.Next calls of the scan loop
    pc       \* the scan loop's position, "free" when calls come in any order

vars == <<tree, table, sc, err, panic, seeks, rec, op, ret, out, calls, pc>>

Tables == {"T", "U"}
CmpVals == {CMP_LE, CMP_LT, -1, 0, 1, CMP_GT, CMP_GE}
KeyCols == {<<"a">>, <<"b">>, <<"c">>}
KeyVals == 1..MaxA

EmptyRecord == [Cols |-> <<>>, Vals |-> <<>>]

InitWith(p) ==
    /\ tree \in Trees
    /\ table = ""
    /\ sc = NewScanner(0, 0, EmptyRecord, EmptyRecord)
    /\ err = "unset"
    /\ panic = ""
    /\ seeks = 0
    /\ rec = EmptyRecord
    /\ op = "new"
    /\ ret = FALSE
    /\ out = <<>>
    /\ calls = 0
    /\ pc = p

\* the caller fills in a Scanner and calls DB.Scan
ScanStep ==
    /\ err = "unset"
    /\ panic = ""
    /\ \E tbl \in Tables, cmp1 \in CmpVals, cmp2 \in CmpVals, cols \in KeyCols,
          v1 \in KeyVals, v2 \in KeyVals :
          LET req == NewScanner(cmp1, cmp2, [Cols |-> cols, Vals |-> <<v1>>],
                                [Cols |-> cols, Vals |-> <<v2>>])
              res == DBScan(tree, tbl, req)
          IN /\ table' = tbl
             /\ sc' = res.sc
             /\ err' = res.err
             /\ panic' = res.panic
             /\ seeks' = seeks + res.seeks
    /\ op' = "Scan"
    /\ UNCHANGED <<tree, rec, ret, out, calls>>

\* Scanner.Valid()
ValidStep ==
    /\ err # "unset"
    /\ panic = ""
    /\ panic' = ScannerValidPanic(tree, sc)
    /\ ret' = (ScannerValidPanic(tree, sc) = "" /\ ScannerValid(tree, sc))
    /\ op' = "Valid"
    /\ UNCHANGED <<tree, table, sc, err, seeks, rec, out>>

\* Scanner.Next()
NextStep ==
    /\ err # "unset"
    /\ panic = ""
    /\ panic' = ScannerValidPanic(tree, sc)
    /\ sc' = IF ScannerValidPanic(tree, sc) = "" THEN ScannerNext(tree, sc) ELSE sc
    /\ op' = "Next"
    /\ UNCHANGED <<tree, table, err, seeks, rec, ret, out>>

\* Scanner.Deref(&rec, tree)
DerefStep ==
    /\ err # "unset"
    /\ panic = ""
    /\ panic' = ScannerValidPanic(tree, sc)
    /\ rec' = IF ScannerValidPanic(tree, sc) = "" THEN ScannerDeref(tree, sc, rec).rec ELSE rec
    /\ sc' = IF ScannerValidPanic(tree, sc) = "" THEN ScannerDeref(tree, sc, rec).sc ELSE sc
    /\ op' = "Deref"
    /\ UNCHANGED <<tree, table, err, seeks, ret>>

(* ---------------- calls in any order: the specification Spec ----------- *)
Init == InitWith("free")

CallScan == pc = "free" /\ ScanStep /\ UNCHANGED pc

CallValid == pc = "free" /\ ValidStep /\ UNCHANGED <<calls, pc>>

CallNext == pc = "free" /\ NextStep /\ UNCHANGED <<calls, pc>>

CallDeref == pc = "free" /\ DerefStep /\ UNCHANGED <<out, calls, pc>>

Next == CallScan \/ CallValid \/ CallNext \/ CallDeref

Spec == Init /\ [][Next]_vars

(* ------- the loop "for Valid() { Deref; Next }": specification SpecLoop - *)
InitLoop == InitWith("scan")

LoopScan ==
    /\ pc = "scan"
    /\ ScanStep
    /\ pc' = IF err' = "nil" THEN "valid" ELSE "done"

LoopValid ==
    /\ pc = "valid"
    /\ ValidStep
    /\ UNCHANGED calls
    /\ pc' = IF panic' # "" \/ ~ret' THEN "done"
             ELSE IF Len(out) < MaxOut THEN "deref" ELSE "cut"

LoopDeref ==
    /\ pc = "deref"
    /\ DerefStep
    /\ out' = Append(out, BIterDeref(tree, sc.iter).key)
    /\ UNCHANGED calls
    /\ pc' = IF panic' # "" THEN "done" ELSE "next"

LoopNext ==
    /\ pc = "next"
    /\ NextStep
    /\ calls' = calls + 1
    /\ pc' = IF panic' # "" THEN "done" ELSE "valid"

NextLoop == LoopScan \/ LoopValid \/ LoopDeref \/ LoopNext

SpecLoop == InitLoop /\ [][NextLoop]_vars

(* ------- a cursor used on its own: the specification SpecIter ---------- *)
\* the keys a caller seeks: a full primary key or the b column of the index
SeekKeys ==
    {encodeKey(TDef.Prefix, <<a>>) : a \in KeyVals}
    \cup {encodeKey(TDef.IndexPrefix[1], <<b>>) : b \in KeyVals}

CmpOps == {CMP_GE, CMP_GT, CMP_LT, CMP_LE}

InitIter == InitWith("iter")

\* iter := tree.Seek(key, cmp)
IterSeek ==
    /\ pc = "iter"
    /\ op = "new"
    /\ \E key \in SeekKeys, cmp \in CmpOps :
          /\ sc' = [sc EXCEPT !.iter = Seek(tree, key, cmp), !.keyStart = key, !.Cmp1 = cmp]
          /\ panic' = IF SeekPanics(tree, key, cmp) THEN "what?" ELSE ""
    /\ seeks' = seeks + 1
    /\ op' = "Seek"
    /\ UNCHANGED <<tree, table, err, rec, ret, out, calls, pc>>

IterCall == pc = "iter" /\ op # "new" /\ panic = ""

\* iter.Valid()
IterValid ==
    /\ IterCall
    /\ ret' = BIterValid(tree, sc.iter)
    /\ op' = "Valid"
    /\ UNCHANGED <<tree, table, sc, err, panic, seeks, rec, out, calls, pc>>

\* iter.Deref()
IterDeref ==
    /\ IterCall
    /\ panic' = IF BIterDerefPanics(sc.iter) THEN "index out of range" ELSE ""
    /\ op' = "Deref"
    /\ UNCHANGED <<tree, table, sc, err, seeks, rec, ret, out, calls, pc>>

\* iter.Next()
IterNext ==
    /\ IterCall
    /\ panic' = IF BIterStepPanics(sc.iter) THEN "index out of range" ELSE ""
    /\ sc' = IF BIterStepPanics(sc.iter) THEN sc
             ELSE [sc EXCEPT !.iter = BIterNext(tree, sc.iter)]
    /\ op' = "Next"
    /\ UNCHANGED <<tree, table, err, seeks, rec, ret, out, calls, pc>>

\* iter.Prev()
IterPrev ==
    /\ IterCall
    /\ panic' = IF BIterStepPanics(sc.iter) THEN "index out of range" ELSE ""
    /\ sc' = IF BIterStepPanics(sc.iter) THEN sc
             ELSE [sc EXCEPT !.iter = BIterPrev(tree, sc.iter)]
    /\ op' = "Prev"
    /\ UNCHANGED <<tree, table, err, seeks, rec, ret, out, calls, pc>>

NextIter == IterSeek \/ IterValid \/ IterDeref \/ IterNext \/ IterPrev

SpecIter == InitIter /\ [][NextIter]_vars

(* ------------------------- what a scan should yield -------------------- *)
IsPrefixSeq(a, b) == Len(a) <= Len(b) /\ SubSeq(b, 1, Len(a)) = a

Reverse(s) == [i \in 1..Len(s) |-> s[Len(s) + 1 - i]]

\* the keys of a set in ascending byte order
RECURSIVE SortKeys(_)
SortKeys(S) ==
    IF S = {} THEN <<>>
    ELSE LET m == CHOOSE x \in S : \A y \in S : bytesCompare(x, y) <= 0
         IN <<m>> \o SortKeys(S \ {m})

\* the stored keys k with lo <= k <= hi
KeysBetween(t, lo, hi) ==
    {k \in StoredKeys(t) : bytesCompare(lo, k) <= 0 /\ bytesCompare(k, hi) <= 0}

\* the stored keys both bounds of the Scanner admit
KeysInRange(t, s) ==
    {k \in StoredKeys(t) : cmpOK(k, s.Cmp1, s.keyStart) /\ cmpOK(k, s.Cmp2, s.keyEnd)}

\* the keys the loop "for Valid() { Deref; Next }" yields from a Scanner
\* that was set up, run for at most fuel rows; done tells that it ended
RECURSIVE RunLoop(_, _, _)
RunLoop(t, s, fuel) ==
    IF ~ScannerValid(t, s) THEN [out |-> <<>>, done |-> TRUE]
    ELSE IF fuel = 0 THEN [out |-> <<>>, done |-> FALSE]
    ELSE LET r == RunLoop(t, ScannerNext(t, s), fuel - 1)
         IN [out |-> <<BIterDeref(t, s.iter).key>> \o r.out, done |-> r.done]

\* the same request with other operators and the bounds exchanged or kept
TwinLoop(cmp1, key1, cmp2, key2) ==
    RunLoop(tree, DBScan(tree, sc.tdef, NewScanner(cmp1, cmp2, key1, key2)).sc, MaxOut)

\* does a stored key hold the values of a bound in the bound's columns
AtBound(s, k, key) ==
    LET tdef == GetTableDef(s.tdef)
        prefix == IF s.indexNo >= 0 THEN tdef.IndexPrefix[s.indexNo + 1] ELSE tdef.Prefix
    IN IsPrefixSeq(encodeKey(prefix, key.Vals), k)

RECURSIVE DropBounds(_, _)
DropBounds(s, keys) ==
    IF keys = <<>> THEN <<>>
    ELSE (IF AtBound(s, Head(keys), s.Key1) \/ AtBound(s, Head(keys), s.Key2)
          THEN <<>> ELSE <<Head(keys)>>) \o DropBounds(s, Tail(keys))

(* ------------------------------- claims -------------------------------- *)
AscInclusive ==
    /\ err = "nil"
    /\ sc.Cmp1 = CMP_GE /\ sc.Cmp2 = CMP_LE
    /\ sc.Key1.Vals[1] <= sc.Key2.Vals[1]

\* C1: a scan with Cmp1 = GE on lo and Cmp2 = LE on hi, lo <= hi, driven by
\* the loop, yields exactly the stored keys k with lo <= k <= hi in ascending
\* order, each once: what it has yielded so far is a prefix of that list and,
\* when the loop has ended, the whole of it.
C1_AscendingScanExact ==
    AscInclusive =>
        LET expected == SortKeys(KeysBetween(tree, sc.keyStart, sc.keyEnd))
        IN /\ IsPrefixSeq(out, expected)
           /\ pc = "done" /\ panic = "" => out = expected

DescInclusive ==
    /\ err = "nil"
    /\ sc.Cmp1 = CMP_LE /\ sc.Cmp2 = CMP_GE
    /\ sc.Key2.Vals[1] <= sc.Key1.Vals[1]

\* C2: the descending scan (Cmp1 = LE on hi, Cmp2 = GE on lo) yields the
\* reverse of what the ascending scan (Cmp1 = GE on lo, Cmp2 = LE on hi)
\* yields over the same tree: whenever the ascending scan ends, what the
\* descending one has yielded so far is a prefix of the reverse and, when
\* its loop has ended, the whole of it.
C2_DescendingIsReverse ==
    DescInclusive =>
        LET asc == TwinLoop(CMP_GE, sc.Key2, CMP_LE, sc.Key1)
        IN asc.done =>
              /\ IsPrefixSeq(out, Reverse(asc.out))
              /\ pc = "done" /\ panic = "" => out = Reverse(asc.out)

Exclusive ==
    /\ err = "nil"
    /\ \/ sc.Cmp1 = CMP_GT /\ sc.Cmp2 = CMP_LT
       \/ sc.Cmp1 = CMP_LT /\ sc.Cmp2 = CMP_GT

\* C3: the keys of a scan with the exclusive operators (GT on lo, LT on hi,
\* in either direction) are the keys of the same scan with the inclusive
\* operators (GE, LE) without the keys at lo and at hi: once the exclusive
\* loop has ended, the inclusive scan's keys without those at the bounds,
\* as far as it was run, are a prefix of what the exclusive scan yielded,
\* and the whole of it if the inclusive scan ended.
C3_ExclusiveDropsEndpoints ==
    Exclusive /\ pc = "done" /\ panic = "" =>
        LET inc == IF sc.Cmp1 > 0 THEN TwinLoop(CMP_GE, sc.Key1, CMP_LE, sc.Key2)
                   ELSE TwinLoop(CMP_LE, sc.Key1, CMP_GE, sc.Key2)
            kept == DropBounds(sc, inc.out)
        IN /\ IsPrefixSeq(kept, out)
           /\ inc.done => out = kept

\* C4: the loop of a scan that was set up ends, after no more Scanner.Next
\* calls than there are stored keys in the range.
C4_ScanTerminates ==
    err = "nil" /\ ~cmpPanics(sc.Cmp1) /\ ~cmpPanics(sc.Cmp2) =>
        /\ calls <= Cardinality(KeysInRange(tree, sc))
        /\ pc # "cut"

\* a sorts before b in byte order: b goes on where a ends, or holds the
\* greater byte where they first differ
ByteLess(a, b) ==
    \E i \in 1..Len(b) :
        /\ i <= Len(a) + 1
        /\ \A j \in 1..(i - 1) : a[j] = b[j]
        /\ i = Len(a) + 1 \/ a[i] < b[i]

\* the key k lies on the side of ref the operator names
Admits(k, cmp, ref) ==
    CASE cmp = CMP_GE -> ~ByteLess(k, ref)
      [] cmp = CMP_GT -> ByteLess(ref, k)
      [] cmp = CMP_LT -> ByteLess(k, ref)
      [] cmp = CMP_LE -> ~ByteLess(ref, k)
      [] OTHER -> FALSE

\* the cursor stands on a key of its leaf
OnKey(t, it) ==
    /\ ~it.isNil
    /\ Len(it.path) > 0
    /\ it.pos[Len(it.pos)] < Len(t.nodes[it.path[Len(it.path)]].keys)

CurrentKey(t, it) == t.nodes[it.path[Len(it.path)]].keys[it.pos[Len(it.pos)] + 1]

\* C5: after a Scan that succeeded and any calls, Scanner.Valid() returns
\* true exactly when the cursor stands on a key and that key lies on the
\* right side of the start bound and of the end bound; no key outside the
\* requested interval is reported valid.
C5_ValidIffInBounds ==
    op = "Valid" /\ err = "nil" /\ panic = "" =>
        ret = (/\ OnKey(tree, sc.iter)
               /\ Admits(CurrentKey(tree, sc.iter), sc.Cmp1, sc.keyStart)
               /\ Admits(CurrentKey(tree, sc.iter), sc.Cmp2, sc.keyEnd))

\* Valid() returned true on a cursor that Next has moved since the seek
C5_Witness ==
    /\ op = "Valid" /\ err = "nil" /\ panic = "" /\ ret
    /\ sc.iter # Seek(tree, sc.keyStart, sc.Cmp1)

OneAscendingOneDescending(cmp1, cmp2) ==
    \/ cmp1 \in {CMP_GE, CMP_GT} /\ cmp2 \in {CMP_LE, CMP_LT}
    \/ cmp2 \in {CMP_GE, CMP_GT} /\ cmp1 \in {CMP_LE, CMP_LT}

Unassigned(s) ==
    /\ s.db = "nil" /\ s.tdef = "" /\ s.indexNo = 0
    /\ s.keyStart = <<>> /\ s.keyEnd = <<>> /\ s.iter.isNil

\* C6: Scan returns an error when the table is not found, when the two
\* operators are not one of GE, GT and one of LE, LT, or when no index
\* matches the columns of the bound; the range is checked before the index
\* is looked up; and whenever it fails no Seek was made and db, tdef,
\* indexNo, keyStart, keyEnd and iter of the Scanner are left unassigned.
C6_SetupFailsCleanly ==
    op = "Scan" =>
        LET found == GetTableDef(table).Name # ""
            shape == OneAscendingOneDescending(sc.Cmp1, sc.Cmp2)
            indexed == findIndex(TDef, sc.Key1.Cols) # -2
        IN /\ ~found => err = "table not found"
           /\ found /\ ~shape => err = "bad range"
           /\ found /\ shape /\ ~indexed => err = "no index found"
           /\ ~(found /\ shape /\ indexed) => seeks = 0 /\ Unassigned(sc) /\ panic = ""

\* C7: the panic of cmpOK is out of reach of the callers of Scan: whatever
\* pair of integers Cmp1 and Cmp2 is, either Scan returns before any Seek
\* or both are among GE, GT, LT and LE, and no call panics in cmpOK.
C7_FatalBranchUnreachable ==
    /\ panic # "what?"
    /\ seeks > 0 => ~cmpPanics(sc.Cmp1) /\ ~cmpPanics(sc.Cmp2)

\* C8: while Scanner.Valid() is false after a Scan that succeeded, the empty
\* tree included, Scanner.Next() leaves the path and the slots of the cursor
\* as they are and Scanner.Deref() leaves the output record as it is, and
\* neither panics.
C8_InvalidScannerCallsAreNoOps ==
    [][(/\ err = "nil" /\ panic = ""
        /\ ScannerValidPanic(tree, sc) = "" /\ ~ScannerValid(tree, sc)
        /\ op' \in {"Next", "Deref"})
       => (sc'.iter = sc.iter /\ rec' = rec /\ panic' = "")]_vars

\* Next() was called on a Scanner whose cursor stands on a key outside the
\* range: the cursor is still where Seek put it
C8_Witness ==
    /\ op = "Next" /\ err = "nil" /\ panic = ""
    /\ OnKey(tree, sc.iter) /\ ~ScannerValid(tree, sc)
    /\ sc.iter = Seek(tree, sc.keyStart, sc.Cmp1)

\* C9: a call of Deref, Next or Prev on a cursor that is not valid, such as
\* the cursor with the empty path that Seek returns on an empty tree, does
\* nothing and does not panic.
C9_InvalidCursorCallsAreSafe ==
    op \in {"Deref", "Next", "Prev"} => panic = ""

StoredKVs(t) ==
    UNION {{[key |-> t.nodes[p].keys[i], val |-> t.nodes[p].vals[i]] :
            i \in 1..Len(t.nodes[p].keys)} :
           p \in {q \in 1..Len(t.nodes) : t.nodes[q].type = BNODE_LEAF}}

\* the rows of the table, read from its primary-key entries
PrimaryRows(t) ==
    {DerefPrimary(TDef, kv) : kv \in {x \in StoredKVs(t) : isPrefix(x.key, TDef.Prefix)}}

\* the key under which index indexNo holds a row
IndexKeyOf(indexNo, row) ==
    encodeKey(TDef.IndexPrefix[indexNo + 1],
              [i \in 1..Len(TDef.Indexes[indexNo + 1]) |->
                  RecordGet(row, TDef.Indexes[indexNo + 1][i])])

\* the index holds an entry for every row and no other entry
IndexConsistent(t) ==
    {k \in StoredKeys(t) : isPrefix(k, TDef.IndexPrefix[1])}
        = {IndexKeyOf(0, row) : row \in PrimaryRows(t)}

\* the rows whose index key both bounds admit, in the order of the index
\* columns, ascending for Cmp1 > 0 and descending otherwise
RowsByIndex(t, s) ==
    LET inRange == {row \in PrimaryRows(t) :
                       /\ cmpOK(IndexKeyOf(s.indexNo, row), s.Cmp1, s.keyStart)
                       /\ cmpOK(IndexKeyOf(s.indexNo, row), s.Cmp2, s.keyEnd)}
        keys == SortKeys({IndexKeyOf(s.indexNo, row) : row \in inRange})
        asc == [i \in 1..Len(keys) |->
                   CHOOSE row \in inRange : IndexKeyOf(s.indexNo, row) = keys[i]]
    IN IF s.Cmp1 > 0 THEN asc ELSE Reverse(asc)

\* C11: over a table whose index holds exactly one entry per row, the loop
\* of a scan through the secondary index yields, entry by entry, the rows
\* of the table whose index columns lie in the range, each with all its
\* columns as the primary-key entry holds them, in the order of the index
\* columns, and no row more.
C11_IndexScanYieldsPrimaryRows ==
    (/\ err = "nil" /\ panic = "" /\ sc.indexNo >= 0
     /\ ~cmpPanics(sc.Cmp1) /\ ~cmpPanics(sc.Cmp2)
     /\ IndexConsistent(tree)) =>
        LET expected == RowsByIndex(tree, sc)
        IN /\ Len(out) <= Len(expected)
           /\ pc = "next" => rec = expected[Len(out)]
           /\ pc = "done" => Len(out) = Len(expected)

\* every Deref of an index entry of such a table yields the row as its
\* primary-key entry holds it
EachIndexDerefIsTheRow ==
    (/\ err = "nil" /\ panic = "" /\ sc.indexNo >= 0 /\ pc = "next"
     /\ IndexConsistent(tree)) =>
        /\ rec \in PrimaryRows(tree)
        /\ IndexKeyOf(sc.indexNo, rec) = out[Len(out)]

(* --------------------------- cursor movement --------------------------- *)
\* every stored key of the tree, in ascending byte order
AllKeys(t) == SortKeys(StoredKeys(t))

\* the place of a stored key in that order, from 1
KeyRank(t, k) == CHOOSE i \in 1..Len(AllKeys(t)) : AllKeys(t)[i] = k

\* every level of the path but the last holds, at its slot, the pointer to
\* the node of the next level
PathConsistent(t, it) ==
    \A i \in 1..(Len(it.path) - 1) :
        /\ it.pos[i] < nKeys(get(t, it.path[i]))
        /\ getPtr(get(t, it.path[i]), it.pos[i]) = it.path[i + 1]

\* the cursor stands on a key and its path is the path from the root to
\* that key
WellPlaced(t, it) ==
    /\ OnKey(t, it)
    /\ it.path[1] = t.root
    /\ PathConsistent(t, it)

\* the cursor stands on the key of the given rank
StandsOnRank(t, it, r) == OnKey(t, it) /\ CurrentKey(t, it) = AllKeys(t)[r]

\* C12: BIter.Next() on a valid cursor that stands on a key other than the
\* largest moves it to the next greater key of the tree, whatever the
\* height of the tree: the cursor is valid afterwards and stands on the
\* immediate successor.
C12_NextMovesToSuccessor ==
    [][(/\ pc = "iter" /\ op' = "Next" /\ panic' = ""
        /\ WellPlaced(tree, sc.iter)
        /\ KeyRank(tree, CurrentKey(tree, sc.iter)) < Len(AllKeys(tree)))
       => StandsOnRank(tree, sc'.iter, KeyRank(tree, CurrentKey(tree, sc.iter)) + 1)]_vars

\* C13: BIter.Prev() on a valid cursor that stands on a key other than the
\* smallest moves it to the next smaller key of the tree, whatever the
\* height of the tree: the cursor is valid afterwards and stands on the
\* immediate predecessor.
C13_PrevMovesToPredecessor ==
    [][(/\ pc = "iter" /\ op' = "Prev" /\ panic' = ""
        /\ BIterValid(tree, sc.iter)
        /\ KeyRank(tree, CurrentKey(tree, sc.iter)) > 1)
       => StandsOnRank(tree, sc'.iter, KeyRank(tree, CurrentKey(tree, sc.iter)) - 1)]_vars

\* the same for a cursor whose path is the path from the root to its key
PrevFromWellPlaced ==
    [][(/\ pc = "iter" /\ op' = "Prev" /\ panic' = ""
        /\ WellPlaced(tree, sc.iter)
        /\ KeyRank(tree, CurrentKey(tree, sc.iter)) > 1)
       => (/\ StandsOnRank(tree, sc'.iter, KeyRank(tree, CurrentKey(tree, sc.iter)) - 1)
           /\ WellPlaced(tree, sc'.iter))]_vars

\* C14: a step past either end of the tree leaves the cursor invalid:
\* after BIter.Next() on a cursor that stands on the largest key, and after
\* BIter.Prev() on a cursor that stands on the smallest key, BIter.Valid()
\* is false.
C14_StepPastEndInvalidates ==
    [][(/\ pc = "iter" /\ panic' = ""
        /\ WellPlaced(tree, sc.iter)
        /\ \/ op' = "Next" /\ KeyRank(tree, CurrentKey(tree, sc.iter)) = Len(AllKeys(tree))
           \/ op' = "Prev" /\ KeyRank(tree, CurrentKey(tree, sc.iter)) = 1)
       => ~BIterValid(tree, sc'.iter)]_vars

\* the stored keys on the side of key that the operator names
KeysAdmitted(t, cmp, key) == {k \in StoredKeys(t) : Admits(k, cmp, key)}

\* the nearest of them: the smallest for GE and GT, the greatest for LE, LT
Nearest(t, cmp, key) ==
    LET S == KeysAdmitted(t, cmp, key)
    IN IF cmp > 0 THEN CHOOSE k \in S : \A x \in S : ~ByteLess(x, k)
       ELSE CHOOSE k \in S : \A x \in S : ~ByteLess(k, x)

\* C15: Seek(key, cmp) returns the less-or-equal landing, moved by one step
\* (forward for cmp > 0, backward for cmp < 0) exactly when cmp is not LE,
\* the landing is valid and its key does not satisfy cmp; and whenever the
\* tree holds a key that satisfies cmp relative to key, the cursor returned
\* is valid and stands on the nearest such key.
C15_SeekFindsNearest ==
    pc = "iter" /\ op = "Seek" /\ panic = "" =>
        LET landing == SeekLE(tree, sc.keyStart)
            steps == /\ sc.Cmp1 # CMP_LE /\ BIterValid(tree, landing)
                     /\ ~Admits(CurrentKey(tree, landing), sc.Cmp1, sc.keyStart)
        IN /\ ~steps => sc.iter = landing
           /\ steps => sc.iter = (IF sc.Cmp1 > 0 THEN BIterNext(tree, landing)
                                  ELSE BIterPrev(tree, landing))
           /\ KeysAdmitted(tree, sc.Cmp1, sc.keyStart) # {} =>
                 /\ OnKey(tree, sc.iter)
                 /\ CurrentKey(tree, sc.iter) = Nearest(tree, sc.Cmp1, sc.keyStart)

\* C16: after Seek and any Next and Prev calls, on a tree of any height,
\* every level of the cursor's path but the last holds at its slot the
\* pointer to the node of the level below.
C16_PathConsistency ==
    pc = "iter" /\ op \in {"Seek", "Next", "Prev"} /\ panic = "" =>
        PathConsistent(tree, sc.iter)

\* C17: Next() and then Prev() on a valid cursor that is not on the largest
\* key gives back the same path and the same slots at every level, and so
\* does Prev() and then Next() on a valid cursor that is not on the
\* smallest key.
C17_NextPrevSymmetric ==
    (/\ pc = "iter" /\ op # "new" /\ panic = ""
     /\ WellPlaced(tree, sc.iter)) =>
        /\ KeyRank(tree, CurrentKey(tree, sc.iter)) < Len(AllKeys(tree))
              => BIterPrev(tree, BIterNext(tree, sc.iter)) = sc.iter
        /\ KeyRank(tree, CurrentKey(tree, sc.iter)) > 1
              => BIterNext(tree, BIterPrev(tree, sc.iter)) = sc.iter

\* C18: once Scanner.Valid() is false after a Scan that succeeded, it stays
\* false: no call of Valid, Next or Deref makes the Scanner valid again,
\* Next leaves the cursor where it is, and a Valid call returns false.
C18_InvalidityIsAbsorbing ==
    [][(/\ pc = "free" /\ err = "nil" /\ panic = ""
        /\ ScannerValidPanic(tree, sc) = "" /\ ~ScannerValid(tree, sc)
        /\ op' \in {"Valid", "Next", "Deref"})
       => (/\ panic' = ""
           /\ ~ScannerValid(tree, sc')
           /\ op' = "Next" => sc'.iter = sc.iter
           /\ op' = "Valid" => ~ret')]_vars

\* Valid() returned false on a Scanner whose cursor, moved by Next since the
\* seek, stands on a key: the scan ran out of its range
C18_Witness ==
    /\ pc = "free" /\ op = "Valid" /\ err = "nil" /\ panic = "" /\ ~ret
    /\ OnKey(tree, sc.iter)
    /\ sc.iter # Seek(tree, sc.keyStart, sc.Cmp1)

\* C19: the steps of a cursor are monotone in key order, on trees of any
\* height and from any valid position, the first and the last key included:
\* if the cursor is valid after BIter.Next() its key is not smaller than the
\* key before the call, and if it is valid after BIter.Prev() its key is
\* not greater.
C19_StepsAreMonotone ==
    [][(/\ pc = "iter" /\ panic' = "" /\ op' \in {"Next", "Prev"}
        /\ BIterValid(tree, sc.iter) /\ BIterValid(tree, sc'.iter))
       => (/\ op' = "Next" => ~ByteLess(CurrentKey(tree, sc'.iter), CurrentKey(tree, sc.iter))
           /\ op' = "Prev" => ~ByteLess(CurrentKey(tree, sc.iter), CurrentKey(tree, sc'.iter)))]_vars

\* the number of levels of the tree: the nodes from the root down the first
\* pointers to a leaf
RECURSIVE HeightFrom(_, _)
HeightFrom(t, ptr) ==
    IF ptr = 0 THEN 0
    ELSE IF bNodeType(get(t, ptr)) = BNODE_LEAF THEN 1
    ELSE 1 + HeightFrom(t, getPtr(get(t, ptr), 0))

\* C20: on a tree whose nodes all hold a key, after Seek and any Next and
\* Prev calls the cursor's path and slots are as long as the tree is high,
\* and the slot of every level is below the key count of that level's node.
C20_SlotsStayInsideNodes ==
    pc = "iter" /\ op \in {"Seek", "Valid", "Deref", "Next", "Prev"} /\ panic = "" =>
        /\ Len(sc.iter.path) = HeightFrom(tree, tree.root)
        /\ Len(sc.iter.pos) = Len(sc.iter.path)
        /\ \A i \in 1..Len(sc.iter.path) :
              sc.iter.pos[i] < nKeys(get(tree, sc.iter.path[i]))

\* a cursor on a tree of three levels that Next has carried at every level:
\* its path no longer leads from the root to its leaf
C20_Witness ==
    /\ pc = "iter" /\ op = "Next" /\ panic = ""
    /\ Len(sc.iter.path) >= 3
    /\ ~PathConsistent(tree, sc.iter)
    /\ sc.iter.pos[1] > 0
====
